---------------------------- MODULE Spec2Model ----------------------------
(***************************************************************************)
(* A model of the NewsCrawler scripts:                                     *)
(*   scripts/crawl_all_sources.py        orchestrator and aggregator       *)
(*   scripts/crawl_semiconductor_news.py CNBC extractor and store          *)
(*   scripts/crawl_google_news.py        Google News extractor and store   *)
(* Text is modelled as TLA+ strings, processed character by character.     *)
(***************************************************************************)
EXTENDS Integers, Sequences, FiniteSets, TLC

VARIABLES
    before,     \* the data/ directory as the running program found it
    fs,         \* the data/ directory: path -> content of the file
    clock,      \* datetime.utcnow(), as a counter
    pc,         \* control position of the running script
    results,    \* main(): results of crawl_all_sources.py, in insertion order
    summary,    \* main(): the "Crawling Summary" lines printed
    aggStatus,  \* outcome of the last combine_data_sources call
    runs,       \* number of combine_data_sources calls made so far
    prog,       \* the script the process runs
    listing,    \* extractor: index of the listing URL being worked on
    ncards,     \* extractor: candidates read from the current page
    candidate,  \* extractor: the loop variable (container, article or link)
    strategy,   \* Google News extractor: "articles" or "links" strategy
    fetched,    \* extractor: outcome of each fetch so far, in order
    articles,   \* extractor: the local list articles
    found_links,\* CNBC extractor: the local set found_links
    seen_titles,\* Google News link scan: the local set seen_titles
    returned,   \* what the extractor returned (unique_articles)
    loaded,     \* send_email.py: data, what load_articles returned
    html,       \* send_email.py: what generate_html_email returned
    outbox      \* send_email.py: the messages handed to the SMTP server

aggVars == <<results, summary, aggStatus, runs>>
exVars == <<listing, ncards, candidate, strategy, fetched, articles, found_links,
            seen_titles, returned>>
mailVars == <<loaded, html, outbox>>
vars == <<fs, before, clock, pc, prog, aggVars, exVars, mailVars>>

---------------------------------------------------------------------------
(* Bounds of the model.                                                    *)

MaxFileArticles == 2    \* entries of a pre-existing per-source article list
MaxRuns == 2            \* consecutive aggregation runs
MaxCards == 2           \* candidates read from one listing page

---------------------------------------------------------------------------
(* Python str operations, on TLA+ strings.                                 *)

UpperAlpha == "ABCDEFGHIJKLMNOPQRSTUVWXYZ"
LowerAlpha == "abcdefghijklmnopqrstuvwxyz"

Ch(s, i) == SubSeq(s, i, i)

Rest(s) == SubSeq(s, 2, Len(s))

\* the characters of a string, as a set
CharsOf(s) == {Ch(s, i) : i \in 1..Len(s)}

Uppers == CharsOf(UpperAlpha)

LowerCh(c) ==
    IF c \in Uppers
    THEN Ch(LowerAlpha, CHOOSE i \in 1..Len(UpperAlpha) : Ch(UpperAlpha, i) = c)
    ELSE c

RECURSIVE LowerFrom(_, _)
LowerFrom(s, i) ==
    IF i > Len(s) THEN "" ELSE LowerCh(Ch(s, i)) \o LowerFrom(s, i + 1)

\* str.lower()
Lower(s) == LowerFrom(s, 1)

IsSpace(c) == c \in {" ", "\t", "\n", "\r"}

RECURSIVE LStrip(_)
LStrip(s) == IF s # "" /\ IsSpace(Ch(s, 1)) THEN LStrip(Rest(s)) ELSE s

RECURSIVE RStrip(_)
RStrip(s) ==
    IF s # "" /\ IsSpace(Ch(s, Len(s)))
    THEN RStrip(SubSeq(s, 1, Len(s) - 1)) ELSE s

\* str.strip()
Strip(s) == RStrip(LStrip(s))

\* sub in s
Contains(s, sub) ==
    \E i \in 1..(Len(s) - Len(sub) + 1) : SubSeq(s, i, i + Len(sub) - 1) = sub

\* s.startswith(prefix)
StartsWith(s, prefix) ==
    Len(prefix) <= Len(s) /\ SubSeq(s, 1, Len(prefix)) = prefix

\* s.find(sub, start), 1-based; 0 when absent
Find(s, sub, start) ==
    IF \E i \in start..(Len(s) - Len(sub) + 1) : SubSeq(s, i, i + Len(sub) - 1) = sub
    THEN CHOOSE i \in start..(Len(s) - Len(sub) + 1) :
            /\ SubSeq(s, i, i + Len(sub) - 1) = sub
            /\ \A j \in start..(i - 1) : SubSeq(s, j, j + Len(sub) - 1) # sub
    ELSE 0

RECURSIVE Replace(_, _, _)
\* s.replace(old, new): every occurrence, left to right
Replace(s, old, new) ==
    IF Len(s) < Len(old) THEN s
    ELSE IF StartsWith(s, old)
         THEN new \o Replace(SubSeq(s, Len(old) + 1, Len(s)), old, new)
         ELSE Ch(s, 1) \o Replace(Rest(s), old, new)

---------------------------------------------------------------------------
(* urllib.parse, for the references the listing pages hold: URLs with a    *)
(* scheme, scheme-relative references, absolute paths and plain relative   *)
(* paths, none with dot segments, query-only or fragment-only references.  *)

Letters == CharsOf(UpperAlpha \o LowerAlpha)
SchemeChars == Letters \cup CharsOf("0123456789+-.")

InString(c, chars) == c \in chars

\* position of the ":" that ends the scheme (a letter, then letters, digits,
\* "+", "-", "."); 0 when the text starts with no scheme
SchemeEnd(u) ==
    LET i == Find(u, ":", 1) IN
    IF /\ i > 1
       /\ InString(Ch(u, 1), Letters)
       /\ \A j \in 1..(i - 1) : InString(Ch(u, j), SchemeChars)
    THEN i ELSE 0

\* first position at or after start holding one of "/", "?", "#"; Len+1 if none
NetlocEnd(u, start) ==
    IF \E i \in start..Len(u) : Ch(u, i) \in {"/", "?", "#"}
    THEN CHOOSE i \in start..Len(u) :
            /\ Ch(u, i) \in {"/", "?", "#"}
            /\ \A j \in start..(i - 1) : Ch(u, j) \notin {"/", "?", "#"}
    ELSE Len(u) + 1

\* urlparse(u).scheme
Scheme(u) ==
    LET colon == SchemeEnd(u) IN
    IF colon = 0 THEN "" ELSE SubSeq(u, 1, colon - 1)

\* what follows the scheme and its ":"
AfterScheme(u) == SubSeq(u, SchemeEnd(u) + 1, Len(u))

\* urlparse(u).netloc: what follows "//" up to the path, query or fragment
Netloc(u) ==
    LET tail == AfterScheme(u) IN
    IF StartsWith(tail, "//")
    THEN SubSeq(tail, 3, NetlocEnd(tail, 3) - 1)
    ELSE ""

\* urlparse(u).path of a URL with a netloc
UrlPath(u) ==
    LET tail == AfterScheme(u)
        rest == SubSeq(tail, NetlocEnd(tail, 3), Len(tail))
        cut == IF \E i \in 1..Len(rest) : Ch(rest, i) \in {"?", "#"}
               THEN (CHOOSE i \in 1..Len(rest) :
                       /\ Ch(rest, i) \in {"?", "#"}
                       /\ \A j \in 1..(i - 1) : Ch(rest, j) \notin {"?", "#"}) - 1
               ELSE Len(rest)
    IN SubSeq(rest, 1, cut)

\* the path up to and including its last "/"
RECURSIVE DirOf(_)
DirOf(path) ==
    IF path = "" THEN "/"
    ELSE IF Ch(path, Len(path)) = "/" THEN path
    ELSE DirOf(SubSeq(path, 1, Len(path) - 1))

\* urljoin(base, ref) for an absolute base
UrlJoin(base, ref) ==
    IF ref = "" THEN base
    ELSE IF SchemeEnd(ref) # 0 THEN ref
    ELSE IF StartsWith(ref, "//") THEN Scheme(base) \o ":" \o ref
    ELSE IF StartsWith(ref, "/")
         THEN Scheme(base) \o "://" \o Netloc(base) \o ref
    ELSE Scheme(base) \o "://" \o Netloc(base) \o DirOf(UrlPath(base)) \o ref

---------------------------------------------------------------------------
(* Files and JSON values.                                                  *)

CnbcFile == "data/semiconductor_news.json"
GoogleFile == "data/google_news_semiconductor.json"
CombinedFile == "data/combined_semiconductor_news.json"

Paths == {CnbcFile, GoogleFile, CombinedFile}

\* a mutant of data_files: the combined file is listed as a source too
data_filesWithOutput == <<CnbcFile, GoogleFile, CombinedFile>>

\* combine_data_sources: data_files, in order
data_files == <<CnbcFile, GoogleFile>>

output_file == CombinedFile

Missing == [kind |-> "missing"]          \* os.path.exists is False
Unparseable == [kind |-> "unparseable"]  \* json.load raises
Scalar == [kind |-> "scalar"]            \* a JSON number, string or null

\* A JSON value under 'articles': t is its JSON type; for the types len()
\* and list.extend() accept ("list", "string", "object") items are the
\* elements iteration yields.
JList(items) == [t |-> "list", items |-> items]

Sized(v) == v.t \in {"list", "string", "object"}

\* An entry of an article list: k = "obj" for a JSON object; tk tells
\* whether 'title' is a string, absent, or of another JSON type.
Obj(title, url) == [k |-> "obj", tk |-> "str", title |-> title, url |-> url]
ObjNoTitle(url) == [k |-> "obj", tk |-> "missing", title |-> "", url |-> url]
ObjBadTitle(url) == [k |-> "obj", tk |-> "nonstr", title |-> "", url |-> url]
NonObj == [k |-> "nonobj"]

\* A JSON object document: keys are the keys present.
DictDoc(keys, value, source, new) ==
    [kind |-> "dict", keys |-> keys, articles |-> value,
     source |-> source, new_articles_today |-> new]

ListDoc(items) == [kind |-> "list", items |-> items]

\* the data/ directory holding these three contents
Files(cnbc, google, combined) ==
    [p \in Paths |-> IF p = CnbcFile THEN cnbc
                     ELSE IF p = GoogleFile THEN google ELSE combined]


---------------------------------------------------------------------------
(* combine_data_sources (crawl_all_sources.py).                            *)

EmptyStats == [n \in {} |-> [total |-> 0, new_today |-> 0]]

\* data.get('source', file_path)
SourceName(data, file_path) ==
    IF "source" \in data.keys THEN data.source ELSE file_path

\* data.get('new_articles_today', 0)
NewToday(data) ==
    IF "new_articles_today" \in data.keys THEN data.new_articles_today ELSE 0

\* One iteration of the loop over data_files.  acc holds combined_articles,
\* and stats.  Everything the try block raises is caught: the file then contributes nothing.
LoadFile(files, acc, file_path) ==
    LET data == files[file_path] IN
    IF data.kind = "missing" THEN acc
    ELSE IF data.kind = "unparseable" THEN acc
    ELSE IF data.kind = "dict" /\ "articles" \in data.keys
    THEN IF ~Sized(data.articles) THEN acc
         ELSE [acc EXCEPT
                 !.stats = (SourceName(data, file_path) :>
                              [total |-> Len(data.articles.items),
                               new_today |-> NewToday(data)]) @@ acc.stats,
                 !.combined_articles = acc.combined_articles \o data.articles.items]
    ELSE IF data.kind = "list"
    THEN [acc EXCEPT !.combined_articles = acc.combined_articles \o data.items]
    ELSE acc

RECURSIVE LoadFrom(_, _, _)
LoadFrom(files, acc, i) ==
    IF i > Len(data_files) THEN acc
    ELSE LoadFrom(files, LoadFile(files, acc, data_files[i]), i + 1)

\* a mutant of TitleKey: the title compared as written
TitleKeyCaseSensitive(article) ==
    IF article.tk = "missing" THEN "" ELSE article.title

\* article.get('title', '').lower(), for an object whose title, when
\* present, is a string
TitleKey(article) ==
    IF article.tk = "missing" THEN "" ELSE Lower(article.title)

\* article.get(...).lower() raises AttributeError: the entry is no object,
\* or its title is no string
EntryRaises(article) ==
    article.k # "obj" \/ article.tk = "nonstr"

\* a mutant of KeepArticle: an empty title is kept like any other
KeepArticleEmptyToo(title, seen) == title \notin seen

\* if title and title not in seen_titles
KeepArticle(title, seen) == title # "" /\ title \notin seen

\* The loop over combined_articles, from entry i on.
RECURSIVE DedupFrom(_, _, _, _)
DedupFrom(combined_articles, i, seen, unique_articles) ==
    IF i > Len(combined_articles)
    THEN [raised |-> FALSE, unique_articles |-> unique_articles]
    ELSE LET article == combined_articles[i] IN
         IF EntryRaises(article)
         THEN [raised |-> TRUE, unique_articles |-> unique_articles]
         ELSE LET title == TitleKey(article) IN
              IF KeepArticle(title, seen)
              THEN DedupFrom(combined_articles, i + 1, seen \cup {title},
                             Append(unique_articles, article))
              ELSE DedupFrom(combined_articles, i + 1, seen, unique_articles)

\* a mutant of DuplicatesRemoved: only the retained articles are counted
DuplicatesRemovedWrong(combined_articles, unique_articles) ==
    Len(unique_articles)

\* duplicates_removed = len(combined_articles) - len(unique_articles)
DuplicatesRemoved(combined_articles, unique_articles) ==
    Len(combined_articles) - Len(unique_articles)

CombinedDoc(now, stats, combined_articles, unique_articles) ==
    [kind |-> "dict",
     keys |-> {"last_updated", "total_articles", "sources",
               "duplicates_removed", "articles"},
     last_updated |-> now,
     total_articles |-> Len(unique_articles),
     sources |-> stats,
     duplicates_removed |-> DuplicatesRemoved(combined_articles, unique_articles),
     articles |-> JList(unique_articles)]

\* combine_data_sources(): the files after the call, and whether it raised.
\* The output file is opened for writing only after the deduplication loop.
CombineDataSources(files, now) ==
    LET acc == LoadFrom(files, [combined_articles |-> <<>>,
                                    stats |-> EmptyStats], 1)
        d == DedupFrom(acc.combined_articles, 1, {}, <<>>)
    IN  IF d.raised
        THEN [raised |-> TRUE, files |-> files]
        ELSE [raised |-> FALSE,
              files |-> [files EXCEPT ![output_file] =
                           CombinedDoc(now, acc.stats, acc.combined_articles,
                                       d.unique_articles)]]

---------------------------------------------------------------------------
(* BeautifulSoup elements, as far as the extractors read them.  Text is    *)
(* kept raw; get_text(strip=True) strips every text node and joins them.   *)

\* an optional value: <<>> for None, <<v>> for v
None == <<>>
Some(v) == <<v>>

RECURSIVE GetTextStrip(_)
\* elem.get_text(strip=True) of an element with these text nodes
GetTextStrip(nodes) ==
    IF nodes = <<>> THEN "" ELSE Strip(Head(nodes)) \o GetTextStrip(Tail(nodes))

RECURSIVE GetText(_)
\* elem.get_text()
GetText(nodes) ==
    IF nodes = <<>> THEN "" ELSE Head(nodes) \o GetText(Tail(nodes))

---------------------------------------------------------------------------
(* get_cnbc_semiconductor_news (crawl_semiconductor_news.py).              *)
(* A card is a Card-titleContainer element: link is its a.Card-title       *)
(* (href and text nodes) or None, extra the container's text nodes outside *)
(* the link, times the text nodes of the first Card-time element found in  *)
(* the container, in its parent and in its grandparent, raises whether     *)
(* reading the card raises.                                                *)

CnbcMinTitleLen == 5

CnbcKeywords == <<"semiconductor", "chip", "technology", "tech",
                  "nvidia", "amd", "intel", "tsmc">>

\* semiconductor_urls, then general_urls; keyword_filter tells the two loops apart
CnbcListings ==
    <<[url |-> "https://www.cnbc.com/semiconductors/", keyword_filter |-> FALSE],
      [url |-> "https://www.cnbc.com/technology/", keyword_filter |-> TRUE]>>

\* title = link_elem.get_text(strip=True) or container.get_text(strip=True)
CnbcTitle(card) ==
    IF GetTextStrip(card.link[1].text) # ""
    THEN GetTextStrip(card.link[1].text)
    ELSE GetTextStrip(card.link[1].text \o card.extra)

\* a mutant of CnbcTitleRejected: no title is too short
CnbcTitleRejectedNever(title) == FALSE

\* if not title or len(title) < 5: continue
CnbcTitleRejected(title) == title = "" \/ Len(title) < CnbcMinTitleLen

\* a mutant of CnbcAlreadyFound: the found_links check left out
CnbcAlreadyFoundNever(full_url, found) == FALSE

\* if full_url in found_links: continue
CnbcAlreadyFound(full_url, found) == full_url \in found

\* if parsed_full.netloc and "cnbc.com" not in parsed_full.netloc: continue
CnbcForeign(full_url) ==
    LET netloc == Netloc(full_url) IN
    netloc # "" /\ ~Contains(netloc, "cnbc.com")

\* the Card-time element: in the container, else in its parent, else in
\* the parent's parent; its stripped text, or None
CnbcTimeText(card) ==
    LET time_elem == IF card.times[1] # None THEN card.times[1]
                     ELSE IF card.times[2] # None THEN card.times[2]
                     ELSE card.times[3]
    IN IF time_elem = None THEN None ELSE Some(GetTextStrip(time_elem[1]))

\* should_keep of the general sections
CnbcShouldKeep(full_url, title, container_text) ==
    LET url_lower == Lower(full_url)
        title_lower == Lower(title)
        text_lower == Lower(container_text)
    IN \E n \in 1..Len(CnbcKeywords) :
           \/ Contains(url_lower, CnbcKeywords[n])
           \/ Contains(title_lower, CnbcKeywords[n])
           \/ Contains(text_lower, CnbcKeywords[n])

CnbcArticle(title, full_url, time_text, now) ==
    [k |-> "obj", tk |-> "str", title |-> title, url |-> full_url,
     source |-> "CNBC", crawled_at |-> now,
     published_time |-> IF time_text # None /\ time_text[1] # ""
                        THEN time_text ELSE None]

\* The body of the loop over card_containers, for one card of the listing
\* page url; st holds articles and found_links.  An exception is caught per
\* card and the loop goes on.
CnbcProcessCard(st, url, keyword_filter, card, now) ==
    IF card.raises THEN st
    ELSE IF card.link = None \/ card.link[1].href = "" THEN st
    ELSE LET full_url == UrlJoin(url, card.link[1].href)
             title == CnbcTitle(card)
         IN IF CnbcForeign(full_url) THEN st
            ELSE IF CnbcAlreadyFound(full_url, st.found_links) THEN st
            ELSE IF CnbcTitleRejected(title) THEN st
            ELSE IF keyword_filter
                    /\ ~CnbcShouldKeep(full_url, title,
                                       GetText(card.link[1].text \o card.extra))
                 THEN st
            ELSE [found_links |-> st.found_links \cup {full_url},
                  articles |-> Append(st.articles,
                                      CnbcArticle(title, full_url,
                                                  CnbcTimeText(card), now))]

RECURSIVE UniqueByUrl(_, _, _, _)
\* "Remove duplicates based on URL": the loop over articles, from entry i on
UniqueByUrl(list, i, seen, unique) ==
    IF i > Len(list) THEN unique
    ELSE IF list[i].url # "" /\ list[i].url \notin seen
         THEN UniqueByUrl(list, i + 1, seen \cup {list[i].url},
                          Append(unique, list[i]))
         ELSE UniqueByUrl(list, i + 1, seen, unique)

\* save_articles of crawl_semiconductor_news.py: the document written
CnbcDoc(list, now) ==
    [kind |-> "dict",
     keys |-> {"last_updated", "total_articles", "articles_today", "articles"},
     last_updated |-> now,
     total_articles |-> Len(list),
     articles_today |-> Len(list),
     articles |-> JList(list)]

\* the records of the document a source file holds, <<>> when it holds none
StoredArticles(content) ==
    IF content.kind = "dict" /\ "articles" \in content.keys
       /\ content.articles.t = "list"
    THEN content.articles.items
    ELSE <<>>

\* a mutant of CnbcSaveArticles: the records of the file are kept in front
CnbcSaveArticlesMerging(files, list, now) ==
    [files EXCEPT ![CnbcFile] = CnbcDoc(StoredArticles(files[CnbcFile]) \o list, now)]

\* save_articles(articles): all_articles is a copy of articles, the file is
\* opened with 'w' and output_data dumped into it
CnbcSaveArticles(files, list, now) ==
    [files EXCEPT ![CnbcFile] = CnbcDoc(list, now)]

\* a mutant of MainSaves: nothing is saved when nothing was found
MainSavesFoundOnly(found) == IF found # <<>> THEN Some(found) ELSE None

\* main() of either crawler script: save_articles(articles) when articles is
\* not empty, save_articles([]) otherwise; the argument of the call
MainSaves(found) == IF found # <<>> THEN Some(found) ELSE Some(<<>>)

---------------------------------------------------------------------------
(* get_google_news_articles (crawl_google_news.py).                        *)
(* A time element is [datetime, text]: its datetime attribute ("" when     *)
(* absent) and its text nodes.                                             *)
(* An article element: link is its first a[href] (href and text nodes) or  *)
(* None, tid the text nodes of its a[data-n-tid] or None, texts the texts  *)
(* of its span and div descendants, times its time elements.               *)
(* A link of the link scan: href, its text nodes, anc_times the time       *)
(* elements under each of its ancestors (parent first, five at most), near *)
(* the texts of the span, div and a children of its parent and then of its *)
(* grandparent.                                                            *)

GoogleUrl ==
    "https://news.google.com/topics/CAAqKAgKIiJDQkFTRXdvS0wyMHZNRGh0YUROclpCSUZaVzR0UjBJb0FBUAE?hl=en-US&gl=US&ceid=US%3Aen"

LinkMinTitleLen == 10
ArticleMinTitleLen == 10
MaxAncestors == 5
MinSourceLen == 2
MaxSourceLen == 50

GoogleLabel == "Google News - Semiconductor Topic"

ArticleSourceWords ==
    <<"Times", "Post", "News", "Journal", "Daily", "Business", "Financial",
      "Economic", "Wire", "Reuters", "Bloomberg", "CNN", "BBC", "CNBC",
      "Forbes", "WSJ", "Guardian", "Today">>

LinkSourceWords == ArticleSourceWords \o <<"Wire", "Herald", "Tribune", "Gazette">>

AnyWordIn(words, text) == \E n \in 1..Len(words) : Contains(text, words[n])

\* "Build full URL"
GoogleFullUrl(href) ==
    IF StartsWith(href, "./") THEN UrlJoin(GoogleUrl, Replace(href, "./", "/"))
    ELSE IF StartsWith(href, "/") THEN UrlJoin(GoogleUrl, href)
    ELSE href

GoogleArticle(title, full_url, source, time_text, now) ==
    [k |-> "obj", tk |-> "str", title |-> title, url |-> full_url,
     source |-> IF source # "" THEN source ELSE "Google News",
     published_at |-> IF time_text # "" THEN time_text ELSE "Recently",
     crawled_at |-> now]

\* link scan: if not title or len(title) < 10: continue
LinkTitleRejected(title) == title = "" \/ Len(title) < LinkMinTitleLen

\* article elements: if not title or len(title) < 10: continue
ArticleTitleRejected(title) == title = "" \/ Len(title) < ArticleMinTitleLen

\* link scan: if './read/' in href or '/read/' in href
IsReadLink(href) == Contains(href, "./read/") \/ Contains(href, "/read/")

RECURSIVE AncestorTime(_, _)
\* link scan: the loop over search_elements, from level i on; "" for None
AncestorTime(anc_times, i) ==
    IF i > Len(anc_times) \/ i > MaxAncestors THEN ""
    ELSE IF anc_times[i] = <<>> THEN AncestorTime(anc_times, i + 1)
    ELSE LET time_elem == anc_times[i][1] IN
         IF time_elem.datetime # "" THEN time_elem.datetime
         ELSE IF GetTextStrip(time_elem.text) # ""
              THEN GetTextStrip(time_elem.text)
              ELSE AncestorTime(anc_times, i + 1)

RECURSIVE BroaderTime(_, _, _)
\* link scan: the loop over parent.parent.find_all('time'), from element i
\* on; a datetime attribute ends it, a text is taken only while none is held
BroaderTime(all_times, i, time_text) ==
    IF i > Len(all_times) THEN time_text
    ELSE IF all_times[i].datetime # "" THEN all_times[i].datetime
    ELSE IF GetTextStrip(all_times[i].text) # "" /\ time_text = ""
         THEN BroaderTime(all_times, i + 1, GetTextStrip(all_times[i].text))
         ELSE BroaderTime(all_times, i + 1, time_text)

\* link scan: time_text, "" for None
LinkTimeText(link) ==
    LET found == AncestorTime(link.anc_times, 1) IN
    IF found = "" /\ Len(link.anc_times) >= 2
    THEN BroaderTime(link.anc_times[2], 1, "")
    ELSE found

RECURSIVE LinkSource(_, _)
\* link scan: the first nearby text that looks like a publication name
LinkSource(near, i) ==
    IF i > Len(near) THEN ""
    ELSE LET text == Strip(near[i]) IN
         IF /\ text # ""
            /\ Len(text) < MaxSourceLen
            /\ Len(text) > MinSourceLen
            /\ AnyWordIn(LinkSourceWords, text)
         THEN text
         ELSE LinkSource(near, i + 1)

\* The body of the loop over all_links for one link that does not raise; st
\* holds articles and seen_titles.
GoogleProcessLink(st, link, now) ==
    IF ~IsReadLink(link.href) THEN st
    ELSE LET title == GetTextStrip(link.text) IN
         IF LinkTitleRejected(title) THEN st
         ELSE IF title \in st.seen_titles THEN st
         ELSE [seen_titles |-> st.seen_titles \cup {title},
               articles |-> Append(st.articles,
                   GoogleArticle(title, GoogleFullUrl(link.href),
                                 LinkSource(link.near, 1),
                                 LinkTimeText(link), now))]

RECURSIVE ArticleSourceText(_, _)
\* article elements: the first span or div text with a publication word
ArticleSourceText(texts, i) ==
    IF i > Len(texts) THEN ""
    ELSE LET text == Strip(texts[i]) IN
         IF text # "" /\ Len(text) < MaxSourceLen /\ AnyWordIn(ArticleSourceWords, text)
         THEN text
         ELSE ArticleSourceText(texts, i + 1)

\* article elements: source
ArticleSource(elem) ==
    IF elem.tid # None /\ GetTextStrip(elem.tid[1]) # ""
    THEN GetTextStrip(elem.tid[1])
    ELSE ArticleSourceText(elem.texts, 1)

\* a mutant of ArticleTime: the text of a time element is preferred to its
\* datetime attribute
ArticleTimeTextFirst(all_times, i) ==
    IF all_times = <<>> THEN ""
    ELSE IF GetTextStrip(all_times[1].text) # ""
         THEN GetTextStrip(all_times[1].text)
         ELSE all_times[1].datetime

RECURSIVE ArticleTime(_, _)
\* article elements: the loop over all_times, from element i on
ArticleTime(all_times, i) ==
    IF i > Len(all_times) THEN ""
    ELSE IF all_times[i].datetime # "" THEN all_times[i].datetime
    ELSE IF GetTextStrip(all_times[i].text) # ""
         THEN GetTextStrip(all_times[i].text)
         ELSE ArticleTime(all_times, i + 1)

\* The body of the loop over article_elements for one element; an
\* exception is caught per element and the loop goes on.
GoogleProcessArticle(list, elem, now) ==
    IF elem.raises THEN list
    ELSE IF elem.link = None THEN list
    ELSE LET title == GetTextStrip(elem.link[1].text) IN
         IF ArticleTitleRejected(title) THEN list
         ELSE Append(list,
                     GoogleArticle(title, GoogleFullUrl(elem.link[1].href),
                                   ArticleSource(elem),
                                   ArticleTime(elem.times, 1), now))

RECURSIVE UniqueByTitle(_, _, _, _)
\* "Remove duplicates based on title": the loop over articles, from entry i
UniqueByTitle(list, i, seen, unique) ==
    IF i > Len(list) THEN unique
    ELSE IF list[i].title # "" /\ list[i].title \notin seen
         THEN UniqueByTitle(list, i + 1, seen \cup {list[i].title},
                            Append(unique, list[i]))
         ELSE UniqueByTitle(list, i + 1, seen, unique)

\* save_articles of crawl_google_news.py: the document written
GoogleDoc(list, now) ==
    [kind |-> "dict",
     keys |-> {"last_updated", "total_articles", "new_articles_today",
               "source", "articles"},
     last_updated |-> now,
     total_articles |-> Len(list),
     new_articles_today |-> Len(list),
     source |-> GoogleLabel,
     articles |-> JList(list)]

\* save_articles(articles) of crawl_google_news.py
GoogleSaveArticles(files, list, now) ==
    [files EXCEPT ![GoogleFile] = GoogleDoc(list, now)]

---------------------------------------------------------------------------
(* The inputs of the aggregation: what the data/ directory may hold when   *)
(* combine_data_sources starts.                                            *)

UrlA == "https://x.com/1"
UrlB == "https://y.com/2"

\* entries a per-source article list is drawn from
Entries(file_path) ==
    IF file_path = CnbcFile
    THEN {Obj("Chip Co beats earnings", UrlA), Obj("AMD rises", UrlA),
          Obj("", UrlA), ObjBadTitle(UrlA)}
    ELSE {Obj("chip co BEATS earnings", UrlB), Obj("AMD rises", UrlB),
          ObjNoTitle(UrlB), NonObj}

SeqsUpTo(S, n) == UNION {[1..k -> S] : k \in 0..n}

\* the document the source's own crawler writes around an article list
\* (save_articles of the two crawler scripts)
SourceDoc(file_path, items) ==
    IF file_path = CnbcFile THEN CnbcDoc(items, 0) ELSE GoogleDoc(items, 0)

SourceContents(file_path) ==
    {Missing, Unparseable, Scalar,
     DictDoc({"last_updated"}, JList(<<>>), "", 0),
     DictDoc({"articles"}, [t |-> "number", items |-> <<>>], "", 0),
     DictDoc({"articles"}, [t |-> "string", items |-> <<NonObj, NonObj>>], "", 0)}
    \cup {SourceDoc(file_path, items) :
            items \in SeqsUpTo(Entries(file_path), MaxFileArticles)}
    \cup {ListDoc(items) : items \in SeqsUpTo(Entries(file_path), MaxFileArticles)}

\* no extractor is running
ExIdle ==
    /\ listing = 0
    /\ ncards = 0
    /\ candidate = None
    /\ strategy = "none"
    /\ fetched = <<>>
    /\ articles = <<>>
    /\ found_links = {}
    /\ seen_titles = {}
    /\ returned = None

\* send_email.py is not running
MailIdle ==
    /\ loaded = None
    /\ html = None
    /\ outbox = <<>>

---------------------------------------------------------------------------
(* The aggregation step on its own, run up to MaxRuns times in a row.      *)

InitAgg ==
    /\ \E a \in SourceContents(CnbcFile), b \in SourceContents(GoogleFile) :
         fs = Files(a, b, Missing)
    /\ before = fs
    /\ clock = 0
    /\ pc = "combine"
    /\ results = <<>>
    /\ summary = <<>>
    /\ aggStatus = "none"
    /\ runs = 0
    /\ prog = "combine_data_sources"
    /\ ExIdle
    /\ MailIdle

Combine ==
    /\ pc = "combine"
    /\ runs < MaxRuns
    /\ LET r == CombineDataSources(fs, clock) IN
         /\ fs' = r.files
         /\ aggStatus' = IF r.raised THEN "raised" ELSE "ok"
    /\ clock' = clock + 1
    /\ runs' = runs + 1
    /\ UNCHANGED <<pc, prog, before, mailVars, results, summary, exVars>>

NextAgg == Combine

SpecAgg == InitAgg /\ [][NextAgg]_vars

---------------------------------------------------------------------------
(* A crawler script run to its end in one step, as the orchestrator's      *)
(* child process.  A page is its fetch outcome and what the soup holds.    *)

FailedPage(e) == [outcome |-> e, cards |-> <<>>]
CnbcPage(cards) == [outcome |-> "ok", cards |-> cards]

RECURSIVE CnbcCardsFrom(_, _, _, _, _, _)
\* the loop over card_containers, from card i on
CnbcCardsFrom(st, url, keyword_filter, cards, i, now) ==
    IF i > Len(cards) THEN st
    ELSE CnbcCardsFrom(CnbcProcessCard(st, url, keyword_filter, cards[i], now),
                       url, keyword_filter, cards, i + 1, now)

RECURSIVE CnbcListingsFrom(_, _, _, _)
\* the loops over semiconductor_urls and general_urls, from listing i on; a
\* failed fetch is caught and the loop continues
CnbcListingsFrom(st, pages, i, now) ==
    IF i > Len(CnbcListings) THEN st
    ELSE IF pages[i].outcome # "ok" THEN CnbcListingsFrom(st, pages, i + 1, now)
    ELSE CnbcListingsFrom(
             CnbcCardsFrom(st, CnbcListings[i].url, CnbcListings[i].keyword_filter,
                           pages[i].cards, 1, now),
             pages, i + 1, now)

\* get_cnbc_semiconductor_news()
GetCnbcSemiconductorNews(pages, now) ==
    UniqueByUrl(CnbcListingsFrom([articles |-> <<>>, found_links |-> {}],
                                 pages, 1, now).articles,
                1, {}, <<>>)

GooglePage(article_elements, all_links) ==
    [outcome |-> "ok", article_elements |-> article_elements,
     all_links |-> all_links]

RECURSIVE GoogleArticlesFrom(_, _, _, _)
\* the loop over article_elements, from element i on
GoogleArticlesFrom(list, article_elements, i, now) ==
    IF i > Len(article_elements) THEN list
    ELSE GoogleArticlesFrom(GoogleProcessArticle(list, article_elements[i], now),
                            article_elements, i + 1, now)

RECURSIVE GoogleLinksFrom(_, _, _, _)
\* the loop over all_links, from link i on; a link that raises ends it
GoogleLinksFrom(st, all_links, i, now) ==
    IF i > Len(all_links) THEN st
    ELSE IF all_links[i].raises THEN st
    ELSE GoogleLinksFrom(GoogleProcessLink(st, all_links[i], now),
                         all_links, i + 1, now)

\* get_google_news_articles()
GetGoogleNewsArticles(page, now) ==
    UniqueByTitle(
        IF page.outcome # "ok" THEN <<>>
        ELSE IF page.article_elements = <<>>
             THEN GoogleLinksFrom([articles |-> <<>>, seen_titles |-> {}],
                                  page.all_links, 1, now).articles
             ELSE GoogleArticlesFrom(<<>>, page.article_elements, 1, now),
        1, {}, <<>>)

---------------------------------------------------------------------------
(* Claims about the aggregation, stated over the files on disk.            *)

\* the article list a source file contributes: that of a document with a
\* sized 'articles' value, or of a document that is a list itself
LoadedItems(data) ==
    IF data.kind = "dict" /\ "articles" \in data.keys /\ Sized(data.articles)
    THEN data.articles.items
    ELSE IF data.kind = "list" THEN data.items ELSE <<>>

\* the concatenation in data_files order: CNBC file first, then Google News
Concatenation == LoadedItems(fs[CnbcFile]) \o LoadedItems(fs[GoogleFile])

HasTitle(e) == e.k = "obj" /\ e.tk = "str"

\* entry i repeats, ignoring case, the title of an earlier entry
RepeatsEarlier(c, i) ==
    /\ HasTitle(c[i])
    /\ \E j \in 1..(i - 1) : HasTitle(c[j]) /\ Lower(c[j].title) = Lower(c[i].title)

\* entry i has no title, or the empty string as title
Untitled(e) == e.k = "obj" /\ (e.tk = "missing" \/ (e.tk = "str" /\ e.title = ""))

RECURSIVE Pick(_, _, _)
\* the subsequence of c at the indices in I, in order, from index i on
Pick(c, I, i) ==
    IF i > Len(c) THEN <<>>
    ELSE (IF i \in I THEN <<c[i]>> ELSE <<>>) \o Pick(c, I, i + 1)

CombinedWritten == aggStatus = "ok" /\ fs[CombinedFile].kind = "dict"

CombinedArticles == fs[CombinedFile].articles.items

NoTwoEqualTitles(a) ==
    \A i, j \in 1..Len(a) : i # j => Lower(a[i].title) # Lower(a[j].title)

\* for a title present in both sources the CNBC-file record is the one kept
CnbcRecordKept(a) ==
    \A i \in 1..Len(a) :
        (\E j \in 1..Len(LoadedItems(fs[CnbcFile])) :
            /\ HasTitle(LoadedItems(fs[CnbcFile])[j])
            /\ Lower(LoadedItems(fs[CnbcFile])[j].title) = Lower(a[i].title))
        => \E j \in 1..Len(LoadedItems(fs[CnbcFile])) :
               LoadedItems(fs[CnbcFile])[j] = a[i]

\* C1 as stated: the combined 'articles' are the concatenation of the loaded
\* article lists, CNBC file first, less exactly the articles whose lower-cased
\* title equals that of an earlier article of the concatenation.
C1_AsStated ==
    CombinedWritten =>
        CombinedArticles =
            Pick(Concatenation,
                 {i \in 1..Len(Concatenation) : ~RepeatsEarlier(Concatenation, i)}, 1)

\* C1 (amended): the combined 'articles' are the concatenation of the loaded
\* article lists in data_files order, less the articles whose title is missing
\* or empty and less the articles whose lower-cased title equals that of an
\* earlier article; order is kept, no two retained titles are equal ignoring
\* case, and for a title present in both sources the CNBC record is kept.
C1_CombinedIsFirstSeenDedup ==
    CombinedWritten =>
        /\ CombinedArticles =
             Pick(Concatenation,
                  {i \in 1..Len(Concatenation) :
                      /\ ~Untitled(Concatenation[i])
                      /\ ~RepeatsEarlier(Concatenation, i)}, 1)
        /\ NoTwoEqualTitles(CombinedArticles)
        /\ CnbcRecordKept(CombinedArticles)

\* the scenario of the spec: A holds "Chip Co beats earnings", B holds
\* "chip co BEATS earnings"; one article, the one of A, one duplicate removed
C1_Witness ==
    /\ CombinedWritten
    /\ LoadedItems(fs[CnbcFile]) = <<Obj("Chip Co beats earnings", UrlA)>>
    /\ LoadedItems(fs[GoogleFile]) = <<Obj("chip co BEATS earnings", UrlB)>>
    /\ CombinedArticles = <<Obj("Chip Co beats earnings", UrlA)>>
    /\ fs[CombinedFile].duplicates_removed = 1

\* C2: in every combined document written, duplicates_removed is the sum of
\* the lengths of the loaded article lists minus the length of 'articles',
\* and total_articles is the length of 'articles'.
C2_DuplicatesRemovedExact ==
    CombinedWritten =>
        /\ fs[CombinedFile].duplicates_removed =
             Len(LoadedItems(fs[CnbcFile])) + Len(LoadedItems(fs[GoogleFile]))
               - Len(CombinedArticles)
        /\ fs[CombinedFile].total_articles = Len(CombinedArticles)

C2_Witness ==
    /\ CombinedWritten
    /\ Len(LoadedItems(fs[CnbcFile])) = 2
    /\ Len(LoadedItems(fs[GoogleFile])) = 2
    /\ fs[CombinedFile].duplicates_removed = 3
    /\ fs[CombinedFile].total_articles = 1

SourceFiles == {CnbcFile, GoogleFile}

\* the concatenation less the untitled articles and the case-insensitive
\* repeats: what the title deduplication leaves of a list c
TitleDedup(c) ==
    Pick(c, {i \in 1..Len(c) : ~Untitled(c[i]) /\ ~RepeatsEarlier(c, i)}, 1)

\* C4 as stated: whenever an aggregation has run with some source file
\* missing, it did not raise, the combined document is written, the missing
\* files add no 'sources' entry, and the combined articles are those of the
\* remaining files less what the title deduplication removes.
C4_MissingFileNeverFatal ==
    (runs > 0 /\ \E p \in SourceFiles : fs[p] = Missing) =>
        /\ aggStatus = "ok"
        /\ fs[CombinedFile].kind = "dict"
        /\ Cardinality(DOMAIN fs[CombinedFile].sources)
             <= Cardinality({p \in SourceFiles : fs[p] # Missing})
        /\ CombinedArticles = TitleDedup(Concatenation)

\* a source document that is not well formed: unparseable, not an object
\* with 'articles', 'articles' not a list, or an entry that is no object or
\* whose title is no string
Corrupt(data) ==
    \/ data.kind \in {"unparseable", "scalar"}
    \/ data.kind = "dict" /\ "articles" \notin data.keys
    \/ data.kind = "dict" /\ "articles" \in data.keys /\ data.articles.t # "list"
    \/ \E i \in 1..Len(LoadedItems(data)) :
          LoadedItems(data)[i].k # "obj" \/ LoadedItems(data)[i].tk = "nonstr"

\* the article list of a source when corrupt documents count as empty
ItemsOrEmpty(data) == IF Corrupt(data) THEN <<>> ELSE LoadedItems(data)

\* C5 as stated: an aggregation never raises; a corrupt source document
\* counts as an empty collection and the combined document, holding the
\* other sources' articles, is still written.
C5_CorruptFileNeverFatal ==
    runs > 0 =>
        /\ aggStatus = "ok"
        /\ fs[CombinedFile].kind = "dict"
        /\ CombinedArticles =
             TitleDedup(ItemsOrEmpty(fs[CnbcFile]) \o ItemsOrEmpty(fs[GoogleFile]))

\* the fields of a combined document other than last_updated
SansTimestamp(doc) ==
    <<doc.total_articles, doc.duplicates_removed, doc.articles, doc.sources>>

\* C6: a second aggregation run in a row, on unchanged source documents,
\* ends as the first did and writes a combined document with the same
\* total_articles, duplicates_removed and ordered 'articles'.
C6_Idempotent ==
    [][(runs > 0 /\ runs' = runs + 1
          /\ \A p \in SourceFiles : fs'[p] = fs[p])
        => /\ aggStatus' = aggStatus
           /\ aggStatus = "ok" =>
                SansTimestamp(fs'[CombinedFile]) = SansTimestamp(fs[CombinedFile])]_vars

\* a second run has rewritten a combined document that holds articles and
\* counts a duplicate; only last_updated moved on
C6_Witness ==
    /\ runs = 2
    /\ CombinedWritten
    /\ fs[CombinedFile].last_updated = 1
    /\ Len(CombinedArticles) > 0
    /\ fs[CombinedFile].duplicates_removed > 0

\* a document as save_articles of a crawler writes it
WrittenByCrawler(doc) ==
    /\ doc.kind = "dict"
    /\ doc.keys \in {CnbcDoc(<<>>, 0).keys, GoogleDoc(<<>>, 0).keys}
    /\ doc.articles.t = "list"

\* the new-article count a crawler persisted in its document
PersistedNewCount(doc) ==
    IF "new_articles_today" \in doc.keys THEN doc.new_articles_today
    ELSE doc.articles_today

\* C13 as stated: in every combined document written, each source document
\* a crawler wrote has its entry in 'sources' (under the document's 'source',
\* or under its path when it names none) whose 'total' is the number of its
\* articles and whose 'new_today' is the new-article count persisted in it.
C13_SourcesBreakdown ==
    CombinedWritten =>
        \A file_path \in SourceFiles :
            WrittenByCrawler(fs[file_path]) =>
                LET doc == fs[file_path]
                    label == IF "source" \in doc.keys THEN doc.source
                             ELSE file_path
                IN /\ label \in DOMAIN fs[CombinedFile].sources
                   /\ fs[CombinedFile].sources[label].total
                        = Len(doc.articles.items)
                   /\ fs[CombinedFile].sources[label].new_today
                        = PersistedNewCount(doc)

\* the positions of the concatenation holding an untitled article
UntitledAt == {i \in 1..Len(Concatenation) : Untitled(Concatenation[i])}

\* the positions of the concatenation whose title repeats an earlier one
RepeatsAt == {i \in 1..Len(Concatenation) : RepeatsEarlier(Concatenation, i)}

\* C20: every article of a combined document written has a non-empty title;
\* an article whose title is missing or empty is never kept and is counted
\* in duplicates_removed, which is the number of untitled articles plus the
\* number of titled articles that repeat an earlier title ignoring case.
C20_UntitledDroppedAndCounted ==
    CombinedWritten =>
        /\ \A n \in 1..Len(CombinedArticles) :
             /\ HasTitle(CombinedArticles[n])
             /\ CombinedArticles[n].title # ""
        /\ \A i \in UntitledAt :
             \A n \in 1..Len(CombinedArticles) :
                 CombinedArticles[n] # Concatenation[i]
        /\ fs[CombinedFile].duplicates_removed =
             Cardinality(UntitledAt) + Cardinality(RepeatsAt \ UntitledAt)

\* an untitled article was dropped: duplicates_removed exceeds the number
\* of articles that repeat an earlier title
C20_Witness ==
    /\ CombinedWritten
    /\ UntitledAt # {}
    /\ CombinedArticles # <<>>
    /\ fs[CombinedFile].duplicates_removed > Cardinality(RepeatsAt)

---------------------------------------------------------------------------
(* The listing pages the extractors may be served.                         *)

Link(href, text) == Some([href |-> href, text |-> <<text>>])

NoTimes == <<None, None, None>>

Card(link, extra, times) ==
    [raises |-> FALSE, link |-> link, extra |-> extra, times |-> times]

RaisingCard == [raises |-> TRUE, link |-> None, extra |-> <<>>, times |-> NoTimes]

\* cards of a CNBC listing page
CnbcCards ==
    {RaisingCard,
     Card(None, <<"Advert">>, NoTimes),
     Card(Link("", "Chip without href"), <<>>, NoTimes),
     Card(Link("/chip-a", " Chip maker A "), <<>>,
          <<Some(<<" 2 hours ago ">>), None, None>>),
     Card(Link("https://www.cnbc.com/chip-a", "Chip maker A again"), <<>>, NoTimes),
     Card(Link("https://evil.com/chip", "Chip elsewhere"), <<>>, NoTimes),
     Card(Link("https://notcnbc.com/chip", "Chip lookalike"), <<>>, NoTimes),
     Card(Link("/b", " Chip "), <<>>, NoTimes),
     Card(Link("/c", "  "), <<" AMD news ">>, <<None, Some(<<"Mon, Feb 16">>), None>>),
     Card(Link("/markets", "Stock markets"), <<>>, <<None, None, Some(<<"">>)>>),
     Card(Link("/d", "Intel"), <<>>, NoTimes)}

TimeElem(datetime, text) == [datetime |-> datetime, text |-> <<text>>]

ArticleElem(link, tid, texts, times) ==
    [raises |-> FALSE, link |-> link, tid |-> tid, texts |-> texts, times |-> times]

\* <article> elements of the Google News page
GoogleArticleElems ==
    {[raises |-> TRUE, link |-> None, tid |-> None, texts |-> <<>>, times |-> <<>>],
     ArticleElem(None, None, <<"Top stories">>, <<>>),
     ArticleElem(Link("./read/abc", "Chip maker news"), Some(<<" Reuters ">>), <<>>,
                 <<TimeElem("2026-02-17T05:34:00Z", "2 days ago")>>),
     ArticleElem(Link("./read/def", "chip maker NEWS"), None,
                 <<"More", " Bloomberg ">>, <<TimeElem("", "3 days ago")>>),
     ArticleElem(Link("./read/xyz", "Chip maker news"), None, <<>>, <<>>),
     ArticleElem(Link("./read/s", " Chip news "), None, <<>>, <<>>),
     ArticleElem(Link("/read/q", "Chip news!"), None, <<>>,
                 <<TimeElem("", " "), TimeElem("2026-02-18T00:00:00Z", "")>>),
     ArticleElem(Link("https://example.com/a", "External story"), None, <<>>, <<>>),
     ArticleElem(Link("./read/a./b", "Dotted path story"), None, <<>>, <<>>)}

ScanLink(href, text, anc_times, near) ==
    [raises |-> FALSE, href |-> href, text |-> <<text>>,
     anc_times |-> anc_times, near |-> near]

\* a[href] elements of a Google News page without <article> elements
GoogleLinks ==
    {[raises |-> TRUE, href |-> "./read/abc", text |-> <<>>,
      anc_times |-> <<>>, near |-> <<>>],
     ScanLink("/topics/x", "Topic navigation", <<<<>>>>, <<>>),
     ScanLink("./read/abc", "Chip maker news",
              <<<<>>, <<TimeElem("2026-02-17T05:34:00Z", "2 days ago")>>>>,
              <<"Chip maker news", "Reuters">>),
     ScanLink("./read/def", "chip maker NEWS",
              <<<<TimeElem("", "3 days ago")>>>>, <<"ab", "Bloomberg">>),
     ScanLink("./read/xyz", "Chip maker news", <<<<>>>>, <<>>),
     ScanLink("./read/s", " Chip news ", <<<<>>>>, <<>>),
     ScanLink("/read/q", "Chip news!",
              <<<<TimeElem("", "")>>,
                <<TimeElem("", ""), TimeElem("", "1 hour ago"),
                  TimeElem("2026-02-18T00:00:00Z", "")>>>>, <<>>),
     ScanLink("https://example.com/read/a", "External story", <<<<>>>>, <<>>),
     ScanLink("./read/a./b", "Dotted path story", <<<<>>>>, <<>>)}

---------------------------------------------------------------------------
(* The two crawler scripts, run on their own: main() of each.              *)

CnbcScript == "crawl_semiconductor_news.py"
GoogleScript == "crawl_google_news.py"

InitExtract ==
    /\ fs = Files(Missing, Missing, Missing)
    /\ before = fs
    /\ clock = 0
    /\ pc = "fetch"
    /\ prog \in {CnbcScript, GoogleScript}
    /\ results = <<>>
    /\ summary = <<>>
    /\ aggStatus = "none"
    /\ runs = 0
    /\ listing = 1
    /\ ncards = 0
    /\ candidate = None
    /\ strategy = "none"
    /\ fetched = <<>>
    /\ articles = <<>>
    /\ found_links = {}
    /\ seen_titles = {}
    /\ returned = None
    /\ MailIdle

\* a mutant of AfterListing: the loop over the listing URLs ends at once
AfterListingAbort(i) == "dedup"

\* where the loop over the listing URLs goes after listing URL i
AfterListing(i) == IF i + 1 > Len(CnbcListings) THEN "dedup" ELSE "fetch"

\* requests.get or raise_for_status raises RequestException, or building
\* the soup raises: caught, the loop continues with the next listing URL
CnbcFetchFails ==
    /\ prog = CnbcScript /\ pc = "fetch"
    /\ \E e \in {"RequestException", "Exception"} : fetched' = Append(fetched, e)
    /\ listing' = listing + 1
    /\ pc' = AfterListing(listing)
    /\ UNCHANGED <<fs, clock, prog, before, mailVars, aggVars, ncards, candidate, strategy,
                   articles, found_links, seen_titles, returned>>

CnbcFetchOk ==
    /\ prog = CnbcScript /\ pc = "fetch"
    /\ fetched' = Append(fetched, "ok")
    /\ pc' = "cards"
    /\ ncards' = 0
    /\ UNCHANGED <<fs, clock, prog, before, mailVars, aggVars, listing, candidate, strategy,
                   articles, found_links, seen_titles, returned>>

CnbcCard ==
    /\ prog = CnbcScript /\ pc = "cards"
    /\ ncards < MaxCards
    /\ \E card \in CnbcCards :
         LET st == CnbcProcessCard([articles |-> articles, found_links |-> found_links],
                                   CnbcListings[listing].url,
                                   CnbcListings[listing].keyword_filter,
                                   card, clock)
         IN /\ articles' = st.articles
            /\ found_links' = st.found_links
            /\ candidate' = Some(card)
    /\ ncards' = ncards + 1
    /\ UNCHANGED <<fs, clock, pc, prog, before, mailVars, aggVars, listing, strategy, fetched,
                   seen_titles, returned>>

CnbcPageDone ==
    /\ prog = CnbcScript /\ pc = "cards"
    /\ listing' = listing + 1
    /\ pc' = AfterListing(listing)
    /\ ncards' = 0
    /\ UNCHANGED <<fs, clock, prog, before, mailVars, aggVars, candidate, strategy, fetched,
                   articles, found_links, seen_titles, returned>>

CnbcReturn ==
    /\ prog = CnbcScript /\ pc = "dedup"
    /\ returned' = Some(UniqueByUrl(articles, 1, {}, <<>>))
    /\ pc' = "returned"
    /\ UNCHANGED <<fs, clock, prog, before, mailVars, aggVars, listing, ncards, candidate,
                   strategy, fetched, articles, found_links, seen_titles>>

\* main(): save_articles(articles), or save_articles([]) when none was found
CnbcSave ==
    /\ prog = CnbcScript /\ pc = "returned"
    /\ LET saved == MainSaves(returned[1]) IN
         fs' = IF saved = None THEN fs
               ELSE CnbcSaveArticles(fs, saved[1], clock)
    /\ pc' = "done"
    /\ UNCHANGED <<clock, prog, before, mailVars, aggVars, exVars>>

\* requests.get, raise_for_status or the soup raises: the outer except
GoogleFetchFails ==
    /\ prog = GoogleScript /\ pc = "fetch"
    /\ fetched' = Append(fetched, "Exception")
    /\ pc' = "dedup"
    /\ UNCHANGED <<fs, clock, prog, before, mailVars, aggVars, listing, ncards, candidate,
                   strategy, articles, found_links, seen_titles, returned>>

\* the page is fetched; soup.find_all('article') decides the strategy
GoogleFetchOk ==
    /\ prog = GoogleScript /\ pc = "fetch"
    /\ fetched' = Append(fetched, "ok")
    /\ \E article_elements \in BOOLEAN :
         strategy' = IF article_elements THEN "articles" ELSE "links"
    /\ pc' = "cards"
    /\ UNCHANGED <<fs, clock, prog, before, mailVars, aggVars, listing, ncards, candidate,
                   articles, found_links, seen_titles, returned>>

GoogleArticleElem ==
    /\ prog = GoogleScript /\ pc = "cards" /\ strategy = "articles"
    /\ ncards < MaxCards
    /\ \E elem \in GoogleArticleElems :
         /\ articles' = GoogleProcessArticle(articles, elem, clock)
         /\ candidate' = Some(elem)
    /\ ncards' = ncards + 1
    /\ UNCHANGED <<fs, clock, pc, prog, before, mailVars, aggVars, listing, strategy, fetched,
                   found_links, seen_titles, returned>>

\* one link of the link scan; a link that raises ends the scan, the
\* exception being caught only by the outer except
GoogleLink ==
    /\ prog = GoogleScript /\ pc = "cards" /\ strategy = "links"
    /\ ncards < MaxCards
    /\ \E link \in GoogleLinks :
         /\ candidate' = Some(link)
         /\ IF link.raises
            THEN /\ pc' = "dedup"
                 /\ UNCHANGED <<articles, seen_titles>>
            ELSE LET st == GoogleProcessLink([articles |-> articles,
                                              seen_titles |-> seen_titles],
                                             link, clock)
                 IN /\ articles' = st.articles
                    /\ seen_titles' = st.seen_titles
                    /\ pc' = pc
    /\ ncards' = ncards + 1
    /\ UNCHANGED <<fs, clock, prog, before, mailVars, aggVars, listing, strategy, fetched,
                   found_links, returned>>

\* the loop is over; with the "articles" strategy the page held an element
GooglePageDone ==
    /\ prog = GoogleScript /\ pc = "cards"
    /\ strategy = "articles" => ncards >= 1
    /\ pc' = "dedup"
    /\ UNCHANGED <<fs, clock, prog, before, mailVars, aggVars, exVars>>

GoogleReturn ==
    /\ prog = GoogleScript /\ pc = "dedup"
    /\ returned' = Some(UniqueByTitle(articles, 1, {}, <<>>))
    /\ pc' = "returned"
    /\ UNCHANGED <<fs, clock, prog, before, mailVars, aggVars, listing, ncards, candidate,
                   strategy, fetched, articles, found_links, seen_titles>>

\* main(): save_articles(articles), or save_articles([]) when none was found
GoogleSave ==
    /\ prog = GoogleScript /\ pc = "returned"
    /\ LET saved == MainSaves(returned[1]) IN
         fs' = IF saved = None THEN fs
               ELSE GoogleSaveArticles(fs, saved[1], clock)
    /\ pc' = "done"
    /\ UNCHANGED <<clock, prog, before, mailVars, aggVars, exVars>>

NextExtract ==
    \/ CnbcFetchFails \/ CnbcFetchOk \/ CnbcCard \/ CnbcPageDone
    \/ CnbcReturn \/ CnbcSave
    \/ GoogleFetchFails \/ GoogleFetchOk \/ GoogleArticleElem \/ GoogleLink
    \/ GooglePageDone \/ GoogleReturn \/ GoogleSave

SpecExtract == InitExtract /\ [][NextExtract]_vars

---------------------------------------------------------------------------
(* Claims about the extractors.                                            *)

\* the records the source's file holds, once the crawler has saved it
Persisted(file_path) ==
    IF fs[file_path].kind = "dict" THEN fs[file_path].articles.items ELSE <<>>

\* the list with every record dropped whose title repeats, ignoring case,
\* the title of an earlier record
FirstOfEachTitle(list) ==
    Pick(list, {i \in 1..Len(list) : ~RepeatsEarlier(list, i)}, 1)

\* C7 as stated: of the candidates extracted from the Google News page,
\* those whose title equals an earlier title ignoring case are dropped and
\* the others are returned in their order, so neither the returned sequence
\* nor the persisted collection holds two titles equal ignoring case.
C7_GoogleTitlesUniqueIgnoringCase ==
    (prog = GoogleScript /\ returned # None) =>
        /\ returned[1] = FirstOfEachTitle(articles)
        /\ NoTwoEqualTitles(returned[1])
        /\ NoTwoEqualTitles(Persisted(GoogleFile))

NoTwoEqualUrls(list) ==
    \A i, j \in 1..Len(list) : i # j => list[i].url # list[j].url

IsPrefix(a, b) == Len(a) <= Len(b) /\ SubSeq(b, 1, Len(a)) = a

\* the resolved url of the card held by candidate, "" when it has no link
CardUrl(c, i) ==
    IF c = None \/ c[1].raises \/ c[1].link = None \/ c[1].link[1].href = "" THEN ""
    ELSE UrlJoin(CnbcListings[i].url, c[1].link[1].href)

\* C8: the CNBC extractor never holds, returns or persists two records with
\* the same resolved url; a card whose resolved url was accepted before, on
\* this or an earlier listing page, changes nothing, and accepted records
\* stay where they are, so the first-seen record is the one kept.
C8_CnbcUrlsUnique ==
    /\ [](prog = CnbcScript =>
            /\ NoTwoEqualUrls(articles)
            /\ found_links = {articles[i].url : i \in 1..Len(articles)}
            /\ returned # None =>
                 NoTwoEqualUrls(returned[1]) /\ returned[1] = articles
            /\ NoTwoEqualUrls(Persisted(CnbcFile)))
    /\ [][(prog = CnbcScript /\ ncards' = ncards + 1) =>
            /\ IsPrefix(articles, articles')
            /\ CardUrl(candidate', listing) \in found_links
                 => articles' = articles]_vars

\* a url was accepted on the semiconductor page, met again on the general
\* page, and the extractor returned the first record only
C8_Witness ==
    /\ prog = CnbcScript /\ returned # None
    /\ fetched = <<"ok", "ok">>
    /\ candidate # None
    /\ CardUrl(candidate, 2) = "https://www.cnbc.com/chip-a"
    /\ candidate[1].link[1].href = "https://www.cnbc.com/chip-a"
    /\ Len(returned[1]) = 1
    /\ returned[1][1].title = "Chip maker A"

\* C9: every record an extractor holds, returns or persists has a title of
\* at least 5 characters for CNBC and at least 10 for Google News, in the
\* article-element path and in the link-scan path.
C9_TitlesAtLeastMinimum ==
    LET Long(list, n) == \A i \in 1..Len(list) : Len(list[i].title) >= n IN
    /\ prog = CnbcScript =>
         /\ Long(articles, 5)
         /\ returned # None => Long(returned[1], 5)
         /\ Long(Persisted(CnbcFile), 5)
    /\ prog = GoogleScript =>
         /\ Long(articles, 10)
         /\ returned # None => Long(returned[1], 10)
         /\ Long(Persisted(GoogleFile), 10)

\* the last candidate read had a title below the minimum (" Chip " strips
\* to four characters) and the extractor returned nothing
C9_Witness ==
    /\ prog = CnbcScript /\ returned = Some(<<>>)
    /\ candidate # None /\ ~candidate[1].raises /\ candidate[1].link # None
    /\ candidate[1].link[1].href = "/b"
    /\ Len(CnbcTitle(candidate[1])) = 4

\* C10: a failed fetch of a CNBC listing URL is caught: it adds no record,
\* the loop moves on to the next listing URL, every listing URL has been
\* fetched once the extractor returns, and when every fetch failed the
\* extractor returns the empty sequence.
C10_CnbcFetchFailureSkipsUrl ==
    /\ [](prog = CnbcScript =>
            /\ pc \in {"fetch", "cards", "dedup", "returned", "done"}
            /\ pc \in {"dedup", "returned", "done"} => Len(fetched) = 2
            /\ pc = "fetch" => Len(fetched) = listing - 1
            /\ (returned # None /\ \A i \in 1..Len(fetched) : fetched[i] # "ok")
                 => returned[1] = <<>>)
    /\ [][(prog = CnbcScript /\ Len(fetched') = Len(fetched) + 1
             /\ fetched'[Len(fetched')] # "ok") =>
            /\ articles' = articles
            /\ found_links' = found_links
            /\ listing' = listing + 1
            /\ pc' = IF listing = 1 THEN "fetch" ELSE "dedup"]_vars

\* the first fetch failed, the second listing page was still read and its
\* record returned
C10_Witness ==
    /\ prog = CnbcScript /\ returned # None
    /\ fetched = <<"RequestException", "ok">>
    /\ Len(returned[1]) = 1

\* the time elements the extractor looks at for the candidate c: all those
\* of an article element; for a link, the first one under each ancestor and
\* all those under the grandparent
TimesInScope(c, how) ==
    IF how = "articles" THEN {c.times[i] : i \in 1..Len(c.times)}
    ELSE {c.anc_times[i][1] :
            i \in {j \in 1..Len(c.anc_times) :
                     j <= MaxAncestors /\ c.anc_times[j] # <<>>}}
         \cup (IF Len(c.anc_times) >= 2
               THEN {c.anc_times[2][i] : i \in 1..Len(c.anc_times[2])}
               ELSE {})

\* the first time element the extractor meets for the candidate c, if any
FirstTime(c, how) ==
    IF how = "articles"
    THEN (IF c.times = <<>> THEN None ELSE Some(c.times[1]))
    ELSE LET levels == {j \in 1..Len(c.anc_times) : c.anc_times[j] # <<>>} IN
         IF levels = {} THEN None
         ELSE Some(c.anc_times[CHOOSE j \in levels : \A k \in levels : j <= k][1])

\* the Google News extractor has just accepted its candidate
GoogleAccepted ==
    /\ prog = GoogleScript /\ pc = "cards"
    /\ Len(articles') = Len(articles) + 1

\* C14: the published_at of a record the Google News extractor accepts, on
\* either path, is the datetime attribute of a time element of the candidate
\* or the text of a time element that has no datetime attribute; it is the
\* datetime attribute when the first time element met carries both; and it
\* is "Recently" only when no time element met carries a value.
C14_DatetimePreferred ==
    [][GoogleAccepted =>
         LET c == candidate'[1]
             published_at == articles'[Len(articles')].published_at
             scope == TimesInScope(c, strategy)
             first == FirstTime(c, strategy)
         IN /\ published_at # "Recently" =>
                 \E e \in scope :
                     \/ e.datetime # "" /\ published_at = e.datetime
                     \/ e.datetime = "" /\ published_at = GetTextStrip(e.text)
            /\ (first # None /\ first[1].datetime # "") =>
                 published_at = first[1].datetime
            /\ published_at = "Recently" =>
                 \A e \in scope : e.datetime = "" /\ GetTextStrip(e.text) = ""]_vars

\* an article element whose time element carries both a datetime attribute
\* and the text "2 days ago" was accepted with the datetime attribute
C14_Witness ==
    /\ prog = GoogleScript /\ strategy = "articles"
    /\ candidate # None /\ ~candidate[1].raises
    /\ candidate[1].times = <<TimeElem("2026-02-17T05:34:00Z", "2 days ago")>>
    /\ articles # <<>>
    /\ articles[Len(articles)].published_at = "2026-02-17T05:34:00Z"

\* the href of the candidate c of the Google News extractor
HrefOf(c, how) == IF how = "articles" THEN c.link[1].href ELSE c.href

\* scheme and host of the Google News listing page
GoogleBase == "https://news.google.com"

\* C15 as stated: the url of a record the Google News extractor accepts is,
\* for an href beginning with "./", the base https://news.google.com
\* followed by "/" and the href less its leading "./", and for an href
\* beginning with "/" the base followed by the href.
C15_DotSlashAnchoredAtBase ==
    [][GoogleAccepted =>
         LET href == HrefOf(candidate'[1], strategy)
             url == articles'[Len(articles')].url
         IN /\ StartsWith(href, "./") =>
                 url = GoogleBase \o "/" \o SubSeq(href, 3, Len(href))
            /\ StartsWith(href, "/") => url = GoogleBase \o href]_vars

\* host is cnbc.com or one of its subdomains
IsCnbcHost(host) ==
    \/ host = "cnbc.com"
    \/ /\ Len(host) > Len(".cnbc.com")
       /\ SubSeq(host, Len(host) - Len(".cnbc.com") + 1, Len(host)) = ".cnbc.com"

\* C17 as stated: every record the CNBC extractor holds, returns or
\* persists has a url whose host is cnbc.com or a subdomain of cnbc.com.
C17_CnbcHostPinned ==
    prog = CnbcScript =>
        /\ \A n \in 1..Len(articles) : IsCnbcHost(Netloc(articles[n].url))
        /\ returned # None =>
             \A n \in 1..Len(returned[1]) : IsCnbcHost(Netloc(returned[1][n].url))
        /\ \A n \in 1..Len(Persisted(CnbcFile)) :
             IsCnbcHost(Netloc(Persisted(CnbcFile)[n].url))

\* an extractor has just taken a candidate whose processing raises
CandidateRaised ==
    /\ prog \in {CnbcScript, GoogleScript} /\ pc = "cards"
    /\ ncards' = ncards + 1
    /\ candidate' # None /\ candidate'[1].raises

\* C18 as stated: in the CNBC card loop, the Google News article-element
\* loop and the Google News link scan alike, a candidate whose processing
\* raises is skipped, adds no record, and the loop goes on with the
\* candidates after it.
C18_ErrorsContainedPerCandidate ==
    [][CandidateRaised => (articles' = articles /\ pc' = "cards")]_vars

\* C19 as stated: whenever the Google News page was fetched and the loop
\* over its <article> elements is over without a record, be it that the
\* page has no <article> element or that every one was rejected, the link
\* scan is the strategy tried next.
C19_LinkScanWhenArticlesYieldNothing ==
    (/\ prog = GoogleScript
     /\ pc \in {"dedup", "returned", "done"}
     /\ fetched = <<"ok">>
     /\ articles = <<>>) => strategy = "links"

\* the source file a crawler script writes
OutputOf(script) == IF script = CnbcScript THEN CnbcFile ELSE GoogleFile

\* C11: once a crawler script has run to its end, its output file holds a
\* document whose 'articles' is the list the extractor returned and whose
\* total_articles is the length of that list; when the extractor returned
\* nothing the file is written all the same, with no article and
\* total_articles = 0.
C11_OutputAlwaysWritten ==
    (prog \in {CnbcScript, GoogleScript} /\ pc = "done") =>
        LET doc == fs[OutputOf(prog)] IN
        /\ doc.kind = "dict"
        /\ "articles" \in doc.keys /\ "total_articles" \in doc.keys
        /\ doc.articles.t = "list"
        /\ doc.articles.items = returned[1]
        /\ doc.total_articles = Len(doc.articles.items)
        /\ returned[1] = <<>> => doc.total_articles = 0

\* every fetch of the CNBC crawler failed and the file was written empty
C11_Witness ==
    /\ prog = CnbcScript /\ pc = "done"
    /\ \A i \in 1..Len(fetched) : fetched[i] # "ok"
    /\ returned = Some(<<>>)
    /\ fs[CnbcFile].kind = "dict"
    /\ fs[CnbcFile].articles.items = <<>>

---------------------------------------------------------------------------
(* main() of crawl_all_sources.py.                                         *)

OrchestratorScript == "crawl_all_sources.py"

\* main(): crawlers, in order
crawlers == <<CnbcScript, GoogleScript>>

\* what the child process of a crawler may be served
CnbcInputs ==
    {<<FailedPage("RequestException"), FailedPage("RequestException")>>,
     <<CnbcPage(<<Card(Link("/chip-a", " Chip maker A "), <<>>, NoTimes)>>),
       FailedPage("Exception")>>,
     <<CnbcPage(<<Card(Link("/chip-a", " Chip maker A "), <<>>, NoTimes)>>),
       CnbcPage(<<Card(Link("https://www.cnbc.com/chip-a", "Chip maker A again"),
                       <<>>, NoTimes),
                  Card(Link("/d", "Intel"), <<>>, NoTimes)>>)>>}

GoogleInputs ==
    {[outcome |-> "Exception", article_elements |-> <<>>, all_links |-> <<>>],
     GooglePage(<<ArticleElem(Link("./read/abc", "chip maker A"), None, <<>>, <<>>)>>,
                <<>>),
     GooglePage(<<>>, <<ScanLink("./read/def", "Intel results", <<<<>>>>, <<>>),
                        ScanLink("./read/abc", "Chip maker news", <<<<>>>>, <<>>)>>)}

\* what the data/ directory may hold when the orchestrator starts
OrchContents(file_path) ==
    {Missing, Unparseable}
    \cup {SourceDoc(file_path, items) : items \in SeqsUpTo(Entries(file_path), 1)}

InitOrch ==
    /\ \E a \in OrchContents(CnbcFile), b \in OrchContents(GoogleFile) :
         fs = Files(a, b, Missing)
    /\ before = fs
    /\ clock = 0
    /\ pc = "run_crawlers"
    /\ prog = OrchestratorScript
    /\ results = <<>>
    /\ summary = <<>>
    /\ aggStatus = "none"
    /\ runs = 0
    /\ ExIdle
    /\ MailIdle

\* the files after the child process of script has run main() to its end
ChildSaved(files, script, now) ==
    IF script = CnbcScript
    THEN {LET saved == MainSaves(GetCnbcSemiconductorNews(pages, now)) IN
            IF saved = None THEN files ELSE CnbcSaveArticles(files, saved[1], now) :
            pages \in CnbcInputs}
    ELSE {LET saved == MainSaves(GetGoogleNewsArticles(page, now)) IN
            IF saved = None THEN files ELSE GoogleSaveArticles(files, saved[1], now) :
            page \in GoogleInputs}

\* for crawler in crawlers: the crawler run after those in done
NextCrawler(done) == Len(done) + 1

\* results[crawler] = run_crawler(crawler), the child exiting with status 0
RunCrawlerSucceeds ==
    /\ prog = OrchestratorScript /\ pc = "run_crawlers"
    /\ NextCrawler(results) <= Len(crawlers)
    /\ fs' \in ChildSaved(fs, crawlers[NextCrawler(results)], clock)
    /\ results' = Append(results, [crawler |-> crawlers[NextCrawler(results)],
                                   success |-> TRUE])
    /\ clock' = clock + 1
    /\ UNCHANGED <<pc, prog, before, mailVars, summary, aggStatus, runs, exVars>>

\* results[crawler] = run_crawler(crawler), the child exiting with another
\* status before it saved (CalledProcessError) or not starting (Exception):
\* run_crawler returns False
RunCrawlerFails ==
    /\ prog = OrchestratorScript /\ pc = "run_crawlers"
    /\ NextCrawler(results) <= Len(crawlers)
    /\ \E e \in {"CalledProcessError", "Exception"} :
         results' = Append(results, [crawler |-> crawlers[NextCrawler(results)],
                                     success |-> FALSE])
    /\ clock' = clock + 1
    /\ UNCHANGED <<fs, pc, prog, before, mailVars, summary, aggStatus, runs, exVars>>

\* the loop over crawlers is over
CrawlersDone ==
    /\ prog = OrchestratorScript /\ pc = "run_crawlers"
    /\ NextCrawler(results) > Len(crawlers)
    /\ pc' = "combine"
    /\ UNCHANGED <<fs, clock, prog, before, mailVars, aggVars, exVars>>

\* combined_file = combine_data_sources(); what it raises leaves main()
MainCombine ==
    /\ prog = OrchestratorScript /\ pc = "combine"
    /\ LET r == CombineDataSources(fs, clock) IN
         /\ fs' = r.files
         /\ aggStatus' = IF r.raised THEN "raised" ELSE "ok"
         /\ pc' = IF r.raised THEN "raised" ELSE "summary"
    /\ clock' = clock + 1
    /\ runs' = runs + 1
    /\ UNCHANGED <<prog, before, mailVars, results, summary, exVars>>

\* "Crawling Summary": one line per entry of results
PrintSummary ==
    /\ prog = OrchestratorScript /\ pc = "summary"
    /\ summary' = [i \in 1..Len(results) |->
                     [status |-> IF results[i].success THEN "Success" ELSE "Failed",
                      crawler |-> results[i].crawler]]
    /\ pc' = "done"
    /\ UNCHANGED <<fs, clock, prog, before, mailVars, results, aggStatus, runs, exVars>>

NextOrch ==
    \/ RunCrawlerSucceeds \/ RunCrawlerFails \/ CrawlersDone
    \/ MainCombine \/ PrintSummary

SpecOrch == InitOrch /\ [][NextOrch]_vars

---------------------------------------------------------------------------
(* Claims about the orchestrator.                                          *)

\* C3 as stated: whatever the crawler steps do, the orchestrator runs
\* crawl_semiconductor_news.py, crawl_google_news.py, the aggregation and the
\* summary in this order, records a failed crawler as False, starts the
\* aggregation after both crawlers, and is never ended by an exception
\* before the summary.
C3_OrchestratorAlwaysCompletes ==
    prog = OrchestratorScript =>
        /\ pc # "raised"
        /\ \A i \in 1..Len(results) : results[i].crawler = crawlers[i]
        /\ pc \in {"combine", "summary", "done"} => Len(results) = 2
        /\ runs > 0 => pc \in {"summary", "done"}
        /\ pc = "done" =>
             /\ runs = 1
             /\ Len(summary) = 2
             /\ \A i \in 1..2 :
                  /\ summary[i].crawler = crawlers[i]
                  /\ summary[i].status = "Success" <=> results[i].success

\* what the extractor of script may return at time now
RunOutputs(script, now) ==
    IF script = CnbcScript
    THEN {GetCnbcSemiconductorNews(pages, now) : pages \in CnbcInputs}
    ELSE {GetGoogleNewsArticles(page, now) : page \in GoogleInputs}

\* crawler number i has just run to its end with exit status 0
CrawlerSucceeded(i) ==
    /\ prog = OrchestratorScript
    /\ Len(results) = i - 1 /\ Len(results') = i
    /\ results'[i].success

CrawledRecord(article) == HasTitle(article) /\ article.title # ""

\* a document as a successful run of a crawler persisted it
PersistedByCrawler(doc) ==
    /\ WrittenByCrawler(doc)
    /\ \A n \in 1..Len(doc.articles.items) : CrawledRecord(doc.articles.items[n])

\* crawler number i has failed in this run, before it saved
CrawlerFailed(i) ==
    /\ prog = OrchestratorScript
    /\ Len(results) >= i
    /\ ~results[i].success

\* every record of doc is in the combined output, itself or as the earlier
\* record holding the same title ignoring case
IncludedInCombined(doc) ==
    \A n \in 1..Len(doc.articles.items) :
        \E m \in 1..Len(CombinedArticles) :
            /\ HasTitle(CombinedArticles[m])
            /\ Lower(CombinedArticles[m].title) = Lower(doc.articles.items[n].title)

\* C21 as stated: when a crawler has failed before saving and its output
\* file held the document of its previous successful run, the file still
\* holds that document, the aggregation that follows is not ended by an
\* exception and writes a combined output that includes the records of that
\* document (whatever the results map says), and the final summary reports
\* the crawler as failed.
C21_FailedCrawlerStillAggregated ==
    \A i \in 1..Len(crawlers) :
        (/\ CrawlerFailed(i)
         /\ PersistedByCrawler(before[OutputOf(crawlers[i])])) =>
            LET file == OutputOf(crawlers[i]) IN
            /\ fs[file] = before[file]
            /\ pc # "raised"
            /\ runs > 0 =>
                 /\ CombinedWritten
                 /\ IncludedInCombined(before[file])
            /\ pc = "done" =>
                 /\ summary[i].crawler = crawlers[i]
                 /\ summary[i].status = "Failed"

---------------------------------------------------------------------------
(* send_email.py: load_articles, generate_html_email, send_email, main.    *)
(* The rendered digest is kept as its statistics and its numbered rows.    *)

MailScript == "send_email.py"

\* load_articles(): None when the file is missing or json.load raises
LoadArticles(files) ==
    IF files[CnbcFile].kind \in {"missing", "unparseable"} THEN None
    ELSE Some(files[CnbcFile])

\* main(): not data
NoData(content) == content.kind = "list" /\ content.items = <<>>

\* data.get('new_articles_today', 0)
MailNewArticles(content) ==
    IF "new_articles_today" \in content.keys THEN content.new_articles_today
    ELSE 0

\* data.get('total_articles', len(articles))
MailTotalArticles(content) ==
    IF "total_articles" \in content.keys THEN content.total_articles
    ELSE Len(content.articles.items)

\* len(articles), enumerate(articles) or article.get raises
GenerateRaises(content) ==
    \/ ~Sized(content.articles)
    \/ \E n \in 1..Len(content.articles.items) : content.articles.items[n].k # "obj"

\* one numbered article of the digest
MailRow(article, i, new_articles) ==
    [number |-> i,
     title |-> IF article.tk = "missing" THEN "Untitled" ELSE article.title,
     is_new |-> i <= new_articles]

\* generate_html_email(data): whether it raised, and the digest or None
GenerateHtmlEmail(content) ==
    IF content.kind # "dict" \/ "articles" \notin content.keys
    THEN [raised |-> FALSE, page |-> None]
    ELSE IF GenerateRaises(content) THEN [raised |-> TRUE, page |-> None]
    ELSE [raised |-> FALSE,
          page |-> Some([total_articles |-> MailTotalArticles(content),
                         new_articles |-> MailNewArticles(content),
                         rows |-> [i \in 1..Len(content.articles.items) |->
                                     MailRow(content.articles.items[i], i,
                                             MailNewArticles(content))]])]

\* what data/semiconductor_news.json may hold when send_email.py starts
MailContents == SourceContents(CnbcFile) \ {Scalar}

InitMail ==
    /\ \E a \in MailContents : fs = Files(a, Missing, Missing)
    /\ before = fs
    /\ clock = 0
    /\ pc = "load"
    /\ prog = MailScript
    /\ results = <<>>
    /\ summary = <<>>
    /\ aggStatus = "none"
    /\ runs = 0
    /\ ExIdle
    /\ MailIdle

\* main(): data = load_articles(); "No data to send" ends it
MailLoad ==
    /\ prog = MailScript /\ pc = "load"
    /\ loaded' = LoadArticles(fs)
    /\ pc' = IF loaded' = None \/ NoData(loaded'[1]) THEN "done" ELSE "generate"
    /\ UNCHANGED <<fs, before, clock, prog, aggVars, exVars, html, outbox>>

\* main(): html = generate_html_email(data); what it raises leaves main(),
\* "Failed to generate HTML" ends it
MailGenerate ==
    /\ prog = MailScript /\ pc = "generate"
    /\ LET r == GenerateHtmlEmail(loaded[1]) IN
         /\ html' = r.page
         /\ pc' = IF r.raised THEN "raised"
                  ELSE IF r.page = None THEN "done" ELSE "send"
    /\ UNCHANGED <<fs, before, clock, prog, aggVars, exVars, loaded, outbox>>

\* send_email(recipient, subject, html) returns True
MailSent ==
    /\ prog = MailScript /\ pc = "send"
    /\ outbox' = Append(outbox, [new_count |-> MailNewArticles(loaded[1]),
                                 html_content |-> html[1]])
    /\ pc' = "done"
    /\ UNCHANGED <<fs, before, clock, prog, aggVars, exVars, loaded, html>>

\* send_email returns False: the credentials are not set, or the SMTP
\* exchange raised
MailNotSent ==
    /\ prog = MailScript /\ pc = "send"
    /\ \E e \in {"no credentials", "Exception"} : pc' = "done"
    /\ UNCHANGED <<fs, before, clock, prog, aggVars, exVars, mailVars>>

NextMail == MailLoad \/ MailGenerate \/ MailSent \/ MailNotSent

SpecMail == InitMail /\ [][NextMail]_vars

\* C16 as stated: in the digest generated from a document a crawler's
\* save_articles wrote, the "NEW TODAY" badge is on exactly the first N
\* numbered records, N being the new-article count persisted in the
\* document, and the "New Today" statistic shows N.
C16_BadgeOnFirstN ==
    (prog = MailScript /\ html # None /\ WrittenByCrawler(loaded[1])) =>
        LET N == PersistedNewCount(loaded[1]) IN
        /\ html[1].new_articles = N
        /\ \A i \in 1..Len(html[1].rows) : html[1].rows[i].is_new <=> i <= N

=============================================================================
